---- MODULE Spec2Model ----
(***************************************************************************)
(* A model of src/app.py: the prompt expander (generate_image_prompts),    *)
(* the ImageGenerator object (render with two providers, save, upload,     *)
(* display) and the command-line pipeline (main and                        *)
(* create_images_from_concept).                                            *)
(*                                                                         *)
(* Text is modelled as a sequence of atoms.  An atom is either one         *)
(* whitespace character (" " or "\n") or an indivisible run of             *)
(* non-whitespace characters ("n3lson", "man", "on", ...).  Every string   *)
(* operation of the code (strip, split, startswith, lower, join, f-string  *)
(* concatenation) is computed on these sequences as Python computes it on  *)
(* the characters.                                                         *)
(***************************************************************************)
EXTENDS Integers, Sequences, FiniteSets, TLC

VARIABLES
    \* generate_image_prompts: arguments, the chat service's answer, the result
    concept, num_prompts, include_nelson, chat, prompts, ppc,
    \* the Provider-B prompt transform on its own: input, text sent, position
    prompt, ablo_prompt, tpc,
    \* the ImageGenerator instances: gen[g] holds the fields of instance g
    gen,
    \* the environment: the clock time.time() reads (whole seconds), and every
    \* image file written so far, in order: [name, data]
    clock, writes,
    \* per thread: the call stack (top first) and the outcome of the last
    \* call made from outside
    stack, last,
    \* per thread, what the running call has done so far: the image-generation
    \* requests, the save attempts, the runs of the upload tool
    requests, saves, spawns,
    \* the entries of the last listing page written
    page,
    \* the number of render calls and of outside calls made so far
    batch, calls,
    \* per thread, the remote calls and the file operations of the running
    \* call, in the order they were made
    trail,
    \* the command-line process: its environment, its arguments, and whether
    \* it runs, serves or has exited (and with what status)
    env, argv, proc,
    \* the upload tool started by Popen and the loop that relays its output:
    \* where the loop is, what the tool has still to write, and how full the
    \* two pipes between them are
    process

pvars == <<concept, num_prompts, include_nelson, chat, prompts, ppc>>
tvars == <<prompt, ablo_prompt, tpc>>
gvars == <<gen, clock, writes, stack, last, requests, saves, spawns, page, batch, calls, trail>>
cvars == <<env, argv, proc, process>>
vars == <<pvars, tvars, gvars, cvars>>

(***************************************************************************)
(* Bounds of the model.                                                    *)
(***************************************************************************)
MaxTextLen == 4      \* atoms in the text the chat service returns
MaxConceptLen == 2   \* atoms in a concept
MaxN == 3            \* largest requested count
MaxPromptLen == 5    \* atoms in a prompt handed to the Provider-B transform
MaxPrompts == 2      \* prompts in one render call
MaxVariants == 2     \* image entries in one Provider-B response
MaxClock == 1        \* last second the clock reaches
MaxCalls == 3        \* calls made on a generator from outside
MaxIndex == 2        \* largest index a caller passes, in either direction
MaxRequests == 2     \* requests the server receives, calls made by threads side by side

(***************************************************************************)
(* Text.                                                                   *)
(***************************************************************************)
NL == "\n"
SP == " "
Whitespace == {SP, NL}
TextAtoms == {"n3lson", "man", "on", SP, NL}
ConceptAtoms == {"on", "beach", SP}
PromptAtoms == {"n3lson", "N3LSON", "man", "on", SP}

StringsUpTo(A, n) == UNION {[1..k -> A] : k \in 0..n}

\* str.lower(): the only atom with upper-case letters is "N3LSON"
LowerAtom(a) == IF a = "N3LSON" THEN "n3lson" ELSE a
Lower(s) == [i \in 1..Len(s) |-> LowerAtom(s[i])]

RECURSIVE LStrip(_)
LStrip(s) == IF s # <<>> /\ s[1] \in Whitespace THEN LStrip(Tail(s)) ELSE s

RECURSIVE RStrip(_)
RStrip(s) ==
    IF s # <<>> /\ s[Len(s)] \in Whitespace THEN RStrip(SubSeq(s, 1, Len(s) - 1)) ELSE s

\* str.strip()
Strip(s) == RStrip(LStrip(s))

\* index of the first occurrence of atom a in s, 0 when there is none
FirstIndex(s, a) ==
    IF \E i \in 1..Len(s) : s[i] = a
    THEN CHOOSE i \in 1..Len(s) : s[i] = a /\ \A j \in 1..(i - 1) : s[j] # a
    ELSE 0

\* str.split('\n'): "" gives [""], "a\n" gives ["a", ""]
RECURSIVE SplitLines(_)
SplitLines(s) ==
    LET i == FirstIndex(s, NL)
    IN  IF i = 0 THEN <<s>>
        ELSE <<SubSeq(s, 1, i - 1)>> \o SplitLines(SubSeq(s, i + 1, Len(s)))

\* length of the leading run of non-whitespace atoms of s
RECURSIVE WordLen(_)
WordLen(s) == IF s = <<>> \/ s[1] \in Whitespace THEN 0 ELSE 1 + WordLen(Tail(s))

\* str.split() with no argument: the whitespace-delimited words
RECURSIVE SplitWords(_)
SplitWords(s) ==
    LET t == LStrip(s)
        k == WordLen(t)
    IN  IF t = <<>> THEN <<>>
        ELSE <<SubSeq(t, 1, k)>> \o SplitWords(SubSeq(t, k + 1, Len(t)))

\* " ".join(words)
RECURSIVE JoinWords(_)
JoinWords(ws) ==
    IF ws = <<>> THEN <<>>
    ELSE IF Len(ws) = 1 THEN ws[1]
    ELSE ws[1] \o <<SP>> \o JoinWords(Tail(ws))

\* seq[:n] for n >= 0
Take(s, n) == SubSeq(s, 1, IF n < Len(s) THEN n ELSE Len(s))

\* [x for x in s if Keep(x)]
RECURSIVE SelectNonEmpty(_)
SelectNonEmpty(s) ==
    IF s = <<>> THEN <<>>
    ELSE (IF s[1] # <<>> THEN <<s[1]>> ELSE <<>>) \o SelectNonEmpty(Tail(s))

(***************************************************************************)
(* generate_image_prompts (src/app.py 24-101).                             *)
(***************************************************************************)
\* What the chat-completion round trip can come to: requests.post raises,
\* raise_for_status raises, response.json() raises, choices[0].message.content
\* is missing, the content is not a string, or the content is a text.
ChatFailures == {"transport_error", "http_error", "bad_json", "no_content", "not_text"}
ChatReplies ==
    {[kind |-> k, text |-> <<>>] : k \in ChatFailures}
        \cup {[kind |-> "text", text |-> t] : t \in StringsUpTo(TextAtoms, MaxTextLen)}

NoReply == [kind |-> "none", text |-> <<>>]

Trigger == <<"n3lson">>
FallbackSuffix == <<SP, "realistic", SP, "photo", SP, "high", SP, "definition">>

\* a slip in line 84: the blank lines are kept
ParsePrompts_KeepBlank(generated_text) ==
    LET lines == SplitLines(Strip(generated_text))
    IN  [i \in 1..Len(lines) |-> Strip(lines[i])]

\* line 84: [p.strip() for p in generated_text.strip().split('\n') if p.strip()]
ParsePrompts(generated_text) ==
    LET lines == SplitLines(Strip(generated_text))
    IN  SelectNonEmpty([i \in 1..Len(lines) |-> Strip(lines[i])])

\* a slip in lines 98-101: the trigger word is left out of the fallback
FallbackPrompts_NoTrigger(c, n, nelson) == [i \in 1..n |-> c \o FallbackSuffix]

\* lines 98-101: the fallback list
FallbackPrompts(c, n, nelson) ==
    [i \in 1..n |-> IF nelson THEN Trigger \o <<SP>> \o c \o FallbackSuffix
                              ELSE c \o FallbackSuffix]

\* the whole function: its return value on service answer r
GenerateImagePrompts(c, n, nelson, r) ==
    IF r.kind = "text" THEN Take(ParsePrompts(r.text), n)
    ELSE FallbackPrompts(c, n, nelson)

PromptIdle ==
    /\ concept = <<>> /\ num_prompts = 0 /\ include_nelson = FALSE
    /\ chat = NoReply /\ prompts = <<>> /\ ppc = "idle"

PromptInit ==
    /\ concept \in StringsUpTo(ConceptAtoms, MaxConceptLen)
    /\ num_prompts \in 0..MaxN
    /\ include_nelson \in BOOLEAN
    /\ chat = NoReply
    /\ prompts = <<>>
    /\ ppc = "call"

\* one call of generate_image_prompts, the service answering r
CallGenerateImagePrompts ==
    /\ ppc = "call"
    /\ \E r \in ChatReplies :
        /\ chat' = r
        /\ prompts' = GenerateImagePrompts(concept, num_prompts, include_nelson, r)
    /\ ppc' = "done"
    /\ UNCHANGED <<concept, num_prompts, include_nelson, tvars, gvars, cvars>>

(***************************************************************************)
(* Properties of generate_image_prompts, checked under SpecPrompts.        *)
(***************************************************************************)
\* a non-empty string with no whitespace at either end
IsStripped(s) == s # <<>> /\ s[1] \notin Whitespace /\ s[Len(s)] \notin Whitespace

HasNonBlank(s) == \E i \in 1..Len(s) : s[i] \notin Whitespace

C2_FallbackOnFailure ==
    (ppc = "done" /\ chat.kind \in ChatFailures) =>
        /\ Len(prompts) = num_prompts
        /\ \A i \in 1..Len(prompts) :
              LET p == prompts[i]
                  body == concept \o FallbackSuffix
              IN  IF include_nelson
                  THEN /\ Len(p) = Len(body) + 2
                       /\ p[1] = "n3lson" /\ p[2] = SP
                       /\ SubSeq(p, 3, Len(p)) = body
                  ELSE p = body

\* C2 witness: a failed call with the trigger flag set that returned three
\* fallback prompts for a non-empty concept.
C2_Witness ==
    /\ ppc = "done" /\ chat.kind = "http_error"
    /\ include_nelson /\ concept # <<>>
    /\ num_prompts = 3 /\ Len(prompts) = 3

(***************************************************************************)
(* The Provider-B prompt transform (src/app.py 202-210).                   *)
(***************************************************************************)
\* prompt.lower().startswith("n3lson")
StartsWithTrigger(p) == p # <<>> /\ Lower(p)[1] = "n3lson"

\* a slip in line 206: only the first word is dropped
AbloPrompt_DropOne(p) ==
    IF StartsWithTrigger(p)
    THEN LET words == SplitWords(p)
         IN  IF Len(words) > 2 THEN JoinWords(Tail(words)) ELSE p
    ELSE p

AbloPrompt(p) ==
    IF StartsWithTrigger(p)
    THEN LET words == SplitWords(p)
         IN  IF Len(words) > 2 THEN JoinWords(SubSeq(words, 3, Len(words))) ELSE p
    ELSE p

TransformIdle == prompt = <<>> /\ ablo_prompt = <<>> /\ tpc = "idle"

TransformInit ==
    /\ prompt \in StringsUpTo(PromptAtoms, MaxPromptLen)
    /\ ablo_prompt = <<>>
    /\ tpc = "call"

\* the loop body of generate_images_with_ablo up to the payload's freeText
TrimPrompt ==
    /\ tpc = "call"
    /\ ablo_prompt' = AbloPrompt(prompt)
    /\ tpc' = "sent"
    /\ UNCHANGED <<prompt, pvars, gvars, cvars>>

TriggerPhrase == <<<<"n3lson">>, <<"man">>>>

\* generate_images_with_ablo is given the list generate_image_prompts
\* returned: one pass of its loop body (lines 202-210) over one of the prompts
TrimGenerated ==
    /\ ppc = "done" /\ tpc = "idle"
    /\ \E i \in 1..Len(prompts) :
        /\ prompt' = prompts[i]
        /\ ablo_prompt' = AbloPrompt(prompts[i])
    /\ tpc' = "sent"
    /\ UNCHANGED <<pvars, gvars, cvars>>

\* the number of leading words of a prompt that belong to the trigger phrase
LeadingTrigger(words) ==
    IF Len(words) >= 1 /\ Lower(words[1]) = TriggerPhrase[1]
    THEN (IF Len(words) >= 2 /\ Lower(words[2]) = TriggerPhrase[2] THEN 2 ELSE 1)
    ELSE 0

\* a occurs in b as a subsequence, in order
RECURSIVE IsSubseq(_, _)
IsSubseq(a, b) ==
    IF a = <<>> THEN TRUE
    ELSE IF b = <<>> THEN FALSE
    ELSE IF a[1] = b[1] THEN IsSubseq(Tail(a), Tail(b))
    ELSE IsSubseq(a, Tail(b))

\* C24: the Provider-B transform removes only trigger-phrase tokens: for a
\* prompt that generate_image_prompts returned with the trigger flag set and
\* that starts with the trigger token, every word that is not part of the
\* trigger phrase is still present, in order, in the text sent to Provider B.
C24_OnlyTriggerRemoved ==
    (tpc = "sent" /\ include_nelson /\ StartsWithTrigger(prompt)) =>
        LET words == SplitWords(prompt)
            rest == SubSeq(words, LeadingTrigger(words) + 1, Len(words))
        IN  IsSubseq(rest, SplitWords(ablo_prompt))

(***************************************************************************)
(* The ImageGenerator object (src/app.py 104-656).                         *)
(*                                                                         *)
(* A call is a frame on its thread's stack; a loop of the code advances    *)
(* one iteration per step.  A frame is                                     *)
(*   [op, self, pc, arg, todo, i, acc, ret, batch]                         *)
(* op the function, self the instance, arg its argument, todo the          *)
(* sequence its loop runs over, i the loop position, acc the list it       *)
(* builds, ret the value the last call it made returned, batch the number  *)
(* of the render call (0 in other frames).  Python's None is the empty     *)
(* sequence; an optional value v is <<v>>.                                 *)
(***************************************************************************)
Threads == {1, 2}
Gens == {1, 2}
None == <<>>

\* __init__, lines 110-121; the keys are kept as "is set and non-empty"
NewGen(together, ablo) ==
    [together_api_key |-> together, ablo_api_key |-> ablo,
     generated_images |-> <<>>, prompts_used |-> <<>>, image_files |-> <<>>]

NewFrame(op, g, arg) ==
    [op |-> op, self |-> g, pc |-> "start", arg |-> arg,
     todo |-> <<>>, i |-> 1, acc |-> <<>>, ret |-> None, batch |-> 0]

NoCall == [frame |-> NewFrame("none", 1, None), ret |-> None, exc |-> "none"]

Top(t) == stack[t][1]
Running(t, op, pc) == stack[t] # <<>> /\ Top(t).op = op /\ Top(t).pc = pc
SetTop(t, f) == [stack EXCEPT ![t] = <<f>> \o Tail(stack[t])]

\* the functions whose try block encloses the calls they make
Catchers == {"create_images_from_concept", "api_generate_image"}

\* a call statement: the callee's frame goes on top of the caller's
Invoke(t, caller, callee) ==
    stack' = [stack EXCEPT ![t] = <<callee, caller>> \o Tail(stack[t])]

\* a call statement after which the caller is at pc
CallFrom(t, pc, callee) == Invoke(t, [Top(t) EXCEPT !.pc = pc], callee)

\* a return: the caller gets the value, or the outside call is over
Return(t, v) ==
    LET rest == Tail(stack[t])
    IN  IF rest = <<>>
        THEN /\ stack' = [stack EXCEPT ![t] = <<>>]
             /\ last' = [last EXCEPT ![t] = [frame |-> Top(t), ret |-> v, exc |-> "none"]]
        ELSE /\ stack' = [stack EXCEPT ![t] = <<[rest[1] EXCEPT !.ret = v]>> \o Tail(rest)]
             /\ UNCHANGED last

\* position in st of the nearest frame below the top whose try block catches, 0 if none
CatcherAt(st) ==
    IF \E k \in 2..Len(st) : st[k].op \in Catchers
    THEN CHOOSE k \in 2..Len(st) :
            st[k].op \in Catchers /\ \A j \in 2..(k - 1) : st[j].op \notin Catchers
    ELSE 0

\* an exception e leaves the top frame: it unwinds to the nearest enclosing
\* except clause, or out of the outside call
Raise(t, e) ==
    LET st == stack[t]
        k == CatcherAt(st)
    IN  IF k = 0
        THEN /\ stack' = [stack EXCEPT ![t] = <<>>]
             /\ last' = [last EXCEPT ![t] =
                            [frame |-> st[Len(st)], ret |-> None, exc |-> e]]
        ELSE /\ stack' = [stack EXCEPT ![t] =
                            <<[st[k] EXCEPT !.pc = "except", !.ret = e]>>
                                \o SubSeq(st, k + 1, Len(st))]
             /\ UNCHANGED last

\* seq[index] in Python: the 1-based position, 0 when it raises IndexError
PyIndex(n, index) ==
    IF index >= 0 THEN (IF index < n THEN index + 1 ELSE 0)
    ELSE (IF n + index >= 0 THEN n + index + 1 ELSE 0)

\* zip(a, b)
Zip(a, b) ==
    [k \in 1..(IF Len(a) < Len(b) THEN Len(a) ELSE Len(b)) |-> <<a[k], b[k]>>]

(***************************************************************************)
(* Rendering: generate_images_with_together (123-179) and                  *)
(* generate_images_with_ablo (181-251).                                    *)
(***************************************************************************)
\* the prompts render calls are given in the model
PromptA == <<"n3lson", SP, "man", SP, "on">>
PromptB == <<"on">>
PromptAt(i) == IF i % 2 = 1 THEN PromptA ELSE PromptB
PromptLists == {[i \in 1..k |-> PromptAt(i)] : k \in 0..MaxPrompts}

\* An image payload is opaque to the code.  The model tags it with the render
\* call, the input position of its prompt and its place in the response.
Image(b, i, v) == [batch |-> b, prompt |-> i, variant |-> v]

\* images.generate: a response with data, a response with no data, an exception
TogetherOutcomes == {"ok", "no_data", "error"}

\* the POST to Provider B: raises (transport or status), answers without
\* images, or answers with a list of entries; an entry has a url whose fetch
\* works ("ok"), has no url ("no_url"), or has a url whose fetch raises
VariantKinds == {"ok", "no_url", "fetch_error"}
AbloResponses ==
    {[post |-> k, images |-> <<>>] : k \in {"error", "no_images"}}
        \cup {[post |-> "images", images |-> v] :
                v \in StringsUpTo(VariantKinds, MaxVariants) \ {<<>>}}

\* a slip in lines 145-149 and 192-196: prompts_used is reset before the
\* credential check
RenderStart_ResetFirst(t) ==
    /\ stack[t] # <<>>
    /\ Top(t).op \in {"generate_images_with_together", "generate_images_with_ablo"}
    /\ Top(t).pc = "start"
    /\ LET g == Top(t).self
           key == IF Top(t).op = "generate_images_with_together"
                  THEN gen[g].together_api_key ELSE gen[g].ablo_api_key
       IN  /\ gen' = [gen EXCEPT ![g].prompts_used = <<>>]
           /\ IF ~key
              THEN /\ Raise(t, "ValueError")
                   /\ UNCHANGED <<requests, batch>>
              ELSE /\ stack' = SetTop(t, [Top(t) EXCEPT !.pc = "loop", !.todo = Top(t).arg,
                                                        !.i = 1, !.acc = <<>>,
                                                        !.batch = batch + 1])
                   /\ requests' = [requests EXCEPT ![t] = <<>>]
                   /\ batch' = batch + 1
                   /\ UNCHANGED last
    /\ UNCHANGED <<clock, writes, saves, spawns, page, calls, trail, pvars, tvars, cvars>>

\* lines 145-149 and 192-196: the credential check, then the two resets
RenderStart(t) ==
    /\ stack[t] # <<>>
    /\ Top(t).op \in {"generate_images_with_together", "generate_images_with_ablo"}
    /\ Top(t).pc = "start"
    /\ LET g == Top(t).self
           key == IF Top(t).op = "generate_images_with_together"
                  THEN gen[g].together_api_key ELSE gen[g].ablo_api_key
       IN  IF ~key
           THEN /\ Raise(t, "ValueError")
                /\ UNCHANGED <<gen, requests, batch>>
           ELSE /\ gen' = [gen EXCEPT ![g].prompts_used = <<>>]
                /\ stack' = SetTop(t, [Top(t) EXCEPT !.pc = "loop", !.todo = Top(t).arg,
                                                     !.i = 1, !.acc = <<>>,
                                                     !.batch = batch + 1])
                /\ requests' = [requests EXCEPT ![t] = <<>>]
                /\ batch' = batch + 1
                /\ UNCHANGED last
    /\ UNCHANGED <<clock, writes, saves, spawns, page, calls, trail, pvars, tvars, cvars>>

\* a slip in line 167: the new image is put in front
AddImage_InFront(images, img) == <<img>> \o images

\* lines 167 and 239: images.append(...)
AddImage(images, img) == Append(images, img)

\* a slip in lines 152-174: the try block is around the loop, so that an
\* iteration that collects nothing ends the loop
RenderAdvance_Abort(f, collected) ==
    IF collected = 0 THEN Len(f.todo) + 1 ELSE f.i + 1

\* lines 151 and 198: the loop goes on to the next prompt whether or not the
\* iteration collected an image (the try block is inside the loop)
RenderAdvance(f, collected) == f.i + 1

\* lines 151-174: one iteration of the loop over the prompts
TogetherStep(t) ==
    /\ Running(t, "generate_images_with_together", "loop")
    /\ Top(t).i <= Len(Top(t).todo)
    /\ LET f == Top(t)
           p == f.todo[f.i]
       IN  \E out \in TogetherOutcomes :
            /\ requests' = [requests EXCEPT ![t] =
                               Append(@, [idx |-> f.i, text |-> p,
                                          collected |-> IF out = "ok" THEN 1 ELSE 0])]
            /\ IF out = "ok"
               THEN /\ stack' = SetTop(t, [f EXCEPT !.i = RenderAdvance(f, 1),
                                        !.acc = AddImage(f.acc, Image(f.batch, f.i, 1))])
                    /\ gen' = [gen EXCEPT ![f.self].prompts_used = Append(@, p)]
               ELSE /\ stack' = SetTop(t, [f EXCEPT !.i = RenderAdvance(f, 0)])
                    /\ UNCHANGED gen
    /\ trail' = [trail EXCEPT ![t] = Append(@, "request")]
    /\ UNCHANGED <<clock, writes, last, saves, spawns, page, batch, calls, pvars, tvars, cvars>>

\* str(n) for a number of one digit
NumAtom(n) == <<"0", "1", "2", "3", "4", "5", "6", "7", "8", "9">>[n + 1]

\* " (variant {n})"
VariantSuffix(n) == <<SP, "(variant", SP, NumAtom(n), ")">>

\* a slip in line 240: the label is made from the text sent to the provider
VariantLabel_Sent(p, n) == AbloPrompt(p) \o VariantSuffix(n)

\* line 240: f"{prompt} (variant {len(images)})"
VariantLabel(p, n) == p \o VariantSuffix(n)

\* lines 231-241: the entries of one response, in order; acc is
\* [images, prompts_used]; a fetch that raises ends the loop body
RECURSIVE CollectVariants(_, _, _, _, _, _)
CollectVariants(entries, v, acc, p, b, i) ==
    IF v > Len(entries) THEN acc
    ELSE IF entries[v] = "no_url" THEN CollectVariants(entries, v + 1, acc, p, b, i)
    ELSE IF entries[v] = "fetch_error" THEN acc
    ELSE LET imgs == AddImage(acc.images, Image(b, i, v))
         IN  CollectVariants(entries, v + 1,
                 [images |-> imgs,
                  prompts_used |-> Append(acc.prompts_used, VariantLabel(p, Len(imgs)))],
                 p, b, i)

\* line 237: one GET per entry with a url, up to the first that raises
RECURSIVE Fetches(_)
Fetches(entries) ==
    IF entries = <<>> THEN <<>>
    ELSE IF entries[1] = "no_url" THEN Fetches(Tail(entries))
    ELSE IF entries[1] = "fetch_error" THEN <<"fetch">>
    ELSE <<"fetch">> \o Fetches(Tail(entries))

\* lines 198-246: one iteration of the loop over the prompts
AbloStep(t) ==
    /\ Running(t, "generate_images_with_ablo", "loop")
    /\ Top(t).i <= Len(Top(t).todo)
    /\ LET f == Top(t)
           p == f.todo[f.i]
       IN  \E r \in AbloResponses :
            LET got == CollectVariants(r.images, 1,
                           [images |-> f.acc, prompts_used |-> gen[f.self].prompts_used],
                           p, f.batch, f.i)
                n == Len(got.images) - Len(f.acc)
            IN  /\ requests' = [requests EXCEPT ![t] =
                                   Append(@, [idx |-> f.i, text |-> AbloPrompt(p),
                                              collected |-> n])]
                /\ stack' = SetTop(t, [f EXCEPT !.i = RenderAdvance(f, n),
                                                !.acc = got.images])
                /\ gen' = [gen EXCEPT ![f.self].prompts_used = got.prompts_used]
                /\ trail' = [trail EXCEPT ![t] = (@ \o <<"request">>) \o Fetches(r.images)]
    /\ UNCHANGED <<clock, writes, last, saves, spawns, page, batch, calls, pvars, tvars, cvars>>

\* lines 176-179 and 248-251: the images are stored and returned
RenderReturn(t) ==
    /\ stack[t] # <<>>
    /\ Top(t).op \in {"generate_images_with_together", "generate_images_with_ablo"}
    /\ Top(t).pc = "loop"
    /\ Top(t).i > Len(Top(t).todo)
    /\ gen' = [gen EXCEPT ![Top(t).self].generated_images = Top(t).acc]
    /\ Return(t, Top(t).acc)
    /\ UNCHANGED <<clock, writes, requests, saves, spawns, page, batch, calls, trail, pvars, tvars, cvars>>

(***************************************************************************)
(* Saving: save_all_images (253-286) and save_image (617-656).             *)
(***************************************************************************)
\* f"generated_images/image_{timestamp}_{i}.png"
GeneratedName(timestamp, i) == [ts |-> timestamp, index |-> i]

\* a path of the caller's choosing, not of the generated form
CallerName == [ts |-> -1, index |-> 0]

\* line 648: f"Generated image {index}"
DefaultLabel(index) == <<"Generated", SP, "image", SP, NumAtom(index)>>

\* int(time.time()): the clock never runs backwards
Readings == clock..MaxClock

\* lines 260-267: nothing to save, or the directory is made and the loop starts
SaveAllStart(t) ==
    /\ Running(t, "save_all_images", "start")
    /\ LET f == Top(t)
           me == gen[f.self]
       IN  IF me.generated_images = <<>>
           THEN Return(t, <<>>)
           ELSE \E made \in BOOLEAN :
                   IF made
                   THEN /\ stack' = SetTop(t, [f EXCEPT !.pc = "loop", !.i = 1, !.acc = <<>>,
                                       !.todo = Zip(me.generated_images, me.prompts_used)])
                        /\ UNCHANGED last
                   ELSE Raise(t, "OSError")
    /\ saves' = [saves EXCEPT ![t] = <<>>]
    /\ UNCHANGED <<gen, clock, writes, requests, spawns, page, batch, calls, trail, pvars, tvars, cvars>>

\* a slip in lines 275-283: a save that fails ends the loop
SaveAdvance_Abort(f, ok) == IF ok THEN f.i + 1 ELSE Len(f.todo) + 1

\* line 269: the loop goes on to the next image whether or not the save worked
SaveAdvance(f, ok) == f.i + 1

\* lines 269-283: one iteration; the decode and the write work or raise
SaveAllStep(t) ==
    /\ Running(t, "save_all_images", "loop")
    /\ Top(t).i <= Len(Top(t).todo)
    /\ LET f == Top(t)
       IN  \E timestamp \in Readings, ok \in BOOLEAN :
            LET filename == GeneratedName(timestamp, f.i - 1)
            IN  /\ clock' = timestamp
                /\ saves' = [saves EXCEPT ![t] =
                                Append(@, [idx |-> f.i, name |-> filename, ok |-> ok])]
                /\ IF ok
                   THEN /\ writes' = Append(writes, [name |-> filename, data |-> f.todo[f.i][1]])
                        /\ stack' = SetTop(t, [f EXCEPT !.i = SaveAdvance(f, TRUE),
                                        !.acc = Append(f.acc, <<filename, f.todo[f.i][2]>>)])
                   ELSE /\ UNCHANGED writes
                        /\ stack' = SetTop(t, [f EXCEPT !.i = SaveAdvance(f, FALSE)])
    /\ trail' = [trail EXCEPT ![t] = Append(@, "save")]
    /\ UNCHANGED <<gen, last, requests, spawns, page, batch, calls, pvars, tvars, cvars>>

\* lines 285-286
SaveAllReturn(t) ==
    /\ Running(t, "save_all_images", "loop")
    /\ Top(t).i > Len(Top(t).todo)
    /\ gen' = [gen EXCEPT ![Top(t).self].image_files = Top(t).acc]
    /\ Return(t, Top(t).acc)
    /\ UNCHANGED <<clock, writes, requests, saves, spawns, page, batch, calls, trail, pvars, tvars, cvars>>

\* lines 628-656, the whole function; arg is [index, filename]
SaveImage(t) ==
    /\ Running(t, "save_image", "start")
    /\ LET f == Top(t)
           me == gen[f.self]
           index == f.arg.index
           n == Len(me.generated_images)
       IN  IF n = 0 \/ index >= n
           THEN /\ Return(t, None)
                /\ UNCHANGED <<gen, clock, writes, trail>>
           ELSE \E made \in BOOLEAN, timestamp \in Readings, ok \in BOOLEAN :
                IF f.arg.filename = None /\ ~made
                THEN /\ Raise(t, "OSError")
                     /\ UNCHANGED <<gen, clock, writes, trail>>
                ELSE LET filename == IF f.arg.filename = None
                                     THEN GeneratedName(timestamp, index)
                                     ELSE f.arg.filename[1]
                         k == PyIndex(n, index)
                         kp == PyIndex(Len(me.prompts_used), index)
                     IN  /\ clock' = IF f.arg.filename = None THEN timestamp ELSE clock
                         /\ trail' = [trail EXCEPT ![t] =
                                          IF k = 0 THEN @ ELSE Append(@, "save")]
                         /\ IF k = 0 \/ ~ok
                            THEN \* generated_images[index], the decode or the write raised
                                 /\ Return(t, None)
                                 /\ UNCHANGED <<gen, writes>>
                            ELSE /\ writes' = Append(writes, [name |-> filename,
                                                              data |-> me.generated_images[k]])
                                 /\ IF index < Len(me.prompts_used) /\ kp = 0
                                    THEN \* prompts_used[index] raised
                                         /\ Return(t, None)
                                         /\ UNCHANGED gen
                                    ELSE /\ gen' = [gen EXCEPT ![f.self].image_files =
                                               Append(@, <<filename,
                                                   IF index < Len(me.prompts_used)
                                                   THEN me.prompts_used[kp]
                                                   ELSE DefaultLabel(index)>>)]
                                         /\ Return(t, <<filename>>)
    /\ UNCHANGED <<requests, saves, spawns, page, batch, calls, pvars, tvars, cvars>>

(***************************************************************************)
(* Publishing: upload_to_story_protocol (288-382).                         *)
(***************************************************************************)
\* One run of the external tool: Popen raises, the tool exits non-zero, the
\* tool exits 0 and the try block of lines 341-370 raises (the result file or
\* the debug file cannot be read, or the result is no JSON object), or the tool
\* exits 0 and the result is read.
UploadOutcomes == {"spawn_error", "exit_nonzero", "read_error", "ok"}

\* what json.load gives for the n-th run of the tool in a call
Receipt(n, rec) == [run |-> n, path |-> rec[1], prompt |-> rec[2]]

\* lines 298-300: the images are saved first when there is no record
UploadStart(t) ==
    /\ Running(t, "upload_to_story_protocol", "start")
    /\ IF gen[Top(t).self].image_files = <<>>
       THEN CallFrom(t, "select", NewFrame("save_all_images", Top(t).self, None))
       ELSE stack' = SetTop(t, [Top(t) EXCEPT !.pc = "select"])
    /\ spawns' = [spawns EXCEPT ![t] = <<>>]
    /\ UNCHANGED <<gen, clock, writes, last, requests, saves, page, batch, calls,
                   trail, pvars, tvars, cvars>>

\* lines 302-309; arg is the image_index: None, or <<index>>
UploadSelect(t) ==
    /\ Running(t, "upload_to_story_protocol", "select")
    /\ LET f == Top(t)
           files == gen[f.self].image_files
       IN  IF files = <<>> THEN Return(t, <<>>)
           ELSE IF f.arg = None
           THEN /\ stack' = SetTop(t, [f EXCEPT !.pc = "loop", !.todo = files,
                                                !.i = 1, !.acc = <<>>])
                /\ UNCHANGED last
           ELSE LET k == PyIndex(Len(files), f.arg[1])
                IN  IF k = 0 THEN Raise(t, "IndexError")
                    ELSE /\ stack' = SetTop(t, [f EXCEPT !.pc = "loop", !.todo = <<files[k]>>,
                                                         !.i = 1, !.acc = <<>>])
                         /\ UNCHANGED last
    /\ UNCHANGED <<gen, clock, writes, requests, saves, spawns, page, batch, calls,
                   trail, pvars, tvars, cvars>>

\* a slip in lines 339-370: a record is added whatever the exit status
UploadResults_Always(results, out, receipt) ==
    IF out \in {"ok", "exit_nonzero"} THEN Append(results, receipt) ELSE results

\* lines 339-370: results.append(upload_result) after exit status 0 and a
\* result that could be read
UploadResults(results, out, receipt) ==
    IF out = "ok" THEN Append(results, receipt) ELSE results

\* lines 311-380: one iteration of the loop over the images to upload
UploadStep(t) ==
    /\ Running(t, "upload_to_story_protocol", "loop")
    /\ Top(t).i <= Len(Top(t).todo)
    /\ LET f == Top(t)
           rec == f.todo[f.i]
       IN  \E out \in UploadOutcomes :
            /\ spawns' = [spawns EXCEPT ![t] =
                             Append(@, [path |-> rec[1], prompt |-> rec[2], out |-> out])]
            /\ stack' = SetTop(t, [f EXCEPT !.i = f.i + 1,
                            !.acc = UploadResults(f.acc, out, Receipt(f.i, rec))])
    /\ trail' = [trail EXCEPT ![t] = Append(@, "spawn")]
    /\ UNCHANGED <<gen, clock, writes, last, requests, saves, page, batch, calls,
                   pvars, tvars, cvars>>

\* line 382
UploadReturn(t) ==
    /\ Running(t, "upload_to_story_protocol", "loop")
    /\ Top(t).i > Len(Top(t).todo)
    /\ Return(t, Top(t).acc)
    /\ UNCHANGED <<gen, clock, writes, requests, saves, spawns, page, batch, calls,
                   trail, pvars, tvars, cvars>>

(***************************************************************************)
(* The upload loop and the tool it starts, seen from the two pipes between *)
(* them (lines 311-382).  UploadStep above takes one run of the tool as    *)
(* one step with its outcome; here the run is followed write by write.     *)
(* Popen gives the tool a pipe for its standard output and one for its     *)
(* error stream; a pipe holds a bounded amount, and a write to a full pipe *)
(* blocks the tool until the other end is read.  The tool is a program: a  *)
(* sequence of writes, each to "out" or to "err", after which it exits;    *)
(* an amount of one is one line.                                           *)
(***************************************************************************)
\* the lines a pipe holds before a write to it blocks
PipeCap == 2
\* the most lines one run of the tool writes
MaxOutput == 3
\* the most images one upload call is given
MaxRuns == 2

Programs == StringsUpTo({"out", "err"}, MaxOutput)

NoProcess ==
    [pc |-> "idle", todo |-> 0, tool |-> "none", program |-> <<>>,
     stdout |-> 0, stderr |-> 0, returncode |-> 0, results |-> 0]

\* the next pass of the loop of line 311, or the return of line 382
NextUpload(p, added) ==
    [p EXCEPT !.pc = IF p.todo = 1 THEN "returned" ELSE "popen",
              !.todo = p.todo - 1,
              !.tool = "none", !.program = <<>>,
              !.stdout = 0, !.stderr = 0,
              !.results = p.results + added]

\* lines 323-329: Popen starts the tool with both streams piped, or raises
\* and the except clause of line 379 ends the pass
RelayPopen ==
    /\ process.pc = "popen"
    /\ \/ \E program \in Programs, code \in {0, 1} :
            process' = [process EXCEPT !.pc = "stdout", !.tool = "running",
                                       !.program = program, !.returncode = code]
       \/ process' = NextUpload(process, 0)
    /\ UNCHANGED <<pvars, tvars, gvars, env, argv, proc>>

\* the tool writes its next line: the write goes through when the pipe has
\* room, and blocks otherwise
ToolWrite ==
    /\ process.tool = "running"
    /\ process.program # <<>>
    /\ IF Head(process.program) = "out"
       THEN /\ process.stdout < PipeCap
            /\ process' = [process EXCEPT !.stdout = @ + 1, !.program = Tail(@)]
       ELSE /\ process.stderr < PipeCap
            /\ process' = [process EXCEPT !.stderr = @ + 1, !.program = Tail(@)]
    /\ UNCHANGED <<pvars, tvars, gvars, env, argv, proc>>

\* the tool has written everything and exits, which closes its ends of the pipes
ToolExit ==
    /\ process.tool = "running"
    /\ process.program = <<>>
    /\ process' = [process EXCEPT !.tool = "exited"]
    /\ UNCHANGED <<pvars, tvars, gvars, env, argv, proc>>

\* lines 332-333: one line of the standard output is read and printed
RelayReadLine ==
    /\ process.pc = "stdout"
    /\ process.stdout > 0
    /\ process' = [process EXCEPT !.stdout = @ - 1]
    /\ UNCHANGED <<pvars, tvars, gvars, env, argv, proc>>

\* line 332: the loop ends at end of file, when the pipe is empty and the
\* tool has closed it
RelayEndOfOutput ==
    /\ process.pc = "stdout"
    /\ process.stdout = 0
    /\ process.tool = "exited"
    /\ process' = [process EXCEPT !.pc = "wait"]
    /\ UNCHANGED <<pvars, tvars, gvars, env, argv, proc>>

\* lines 336-339: wait() returns the exit code once the tool has exited
RelayWait ==
    /\ process.pc = "wait"
    /\ process.tool = "exited"
    /\ process' = [process EXCEPT !.pc = IF process.returncode = 0 THEN "result"
                                                                   ELSE "stderr"]
    /\ UNCHANGED <<pvars, tvars, gvars, env, argv, proc>>

\* lines 341-370: the result file is read and appended, or reading it raises
RelayResult ==
    /\ process.pc = "result"
    /\ \E read \in BOOLEAN : process' = NextUpload(process, IF read THEN 1 ELSE 0)
    /\ UNCHANGED <<pvars, tvars, gvars, env, argv, proc>>

\* lines 373-377: the error stream is read to its end and printed
RelayReadErrors ==
    /\ process.pc = "stderr"
    /\ process' = NextUpload(process, 0)
    /\ UNCHANGED <<pvars, tvars, gvars, env, argv, proc>>

\* C22: every upload eventually completes: with a tool that exits on its own
\* once what it writes is consumed, upload_to_story_protocol returns, for any
\* amount of output on the tool's standard output and its error stream.
C22_UploadReturns == <>(process.pc = "returned")

(***************************************************************************)
(* Presentation: display_images_for_selection (384-615).                   *)
(***************************************************************************)
\* lines 395-400
DisplayStart(t) ==
    /\ Running(t, "display_images_for_selection", "start")
    /\ IF gen[Top(t).self].generated_images = <<>>
       THEN Return(t, None)
       ELSE /\ CallFrom(t, "page", NewFrame("save_all_images", Top(t).self, None))
            /\ UNCHANGED last
    /\ UNCHANGED <<gen, clock, writes, requests, saves, spawns, page, batch, calls,
                   trail, pvars, tvars, cvars>>

\* lines 402-615: the page gets one entry per (image, prompt) pair; writing
\* the temporary file or opening the browser works or raises
DisplayPage(t) ==
    /\ Running(t, "display_images_for_selection", "page")
    /\ \E written \in BOOLEAN :
        IF written
        THEN /\ page' = Zip(gen[Top(t).self].generated_images,
                            gen[Top(t).self].prompts_used)
             /\ trail' = [trail EXCEPT ![t] = Append(@, "page")]
             /\ Return(t, <<"html_path">>)
        ELSE /\ Raise(t, "OSError")
             /\ UNCHANGED <<page, trail>>
    /\ UNCHANGED <<gen, clock, writes, requests, saves, spawns, batch, calls, pvars, tvars, cvars>>

(***************************************************************************)
(* Calls made on a generator from outside, one at a time per thread.       *)
(***************************************************************************)
CanCall(t) == stack[t] = <<>> /\ calls < MaxCalls

\* the records of the thread's previous call are dropped
NewCall(t) ==
    /\ last' = [last EXCEPT ![t] = NoCall]
    /\ requests' = [requests EXCEPT ![t] = <<>>]
    /\ saves' = [saves EXCEPT ![t] = <<>>]
    /\ spawns' = [spawns EXCEPT ![t] = <<>>]
    /\ trail' = [trail EXCEPT ![t] = <<>>]

CallRender(t, g) ==
    /\ CanCall(t)
    /\ \E op \in {"generate_images_with_together", "generate_images_with_ablo"},
          ps \in PromptLists :
        stack' = [stack EXCEPT ![t] = <<NewFrame(op, g, ps)>>]
    /\ calls' = calls + 1
    /\ NewCall(t)
    /\ UNCHANGED <<gen, clock, writes, page, batch, pvars, tvars, cvars>>

\* a render call by one of the threads that share generator g
CallRenderShared(t, g) ==
    /\ stack[t] = <<>>
    /\ calls < MaxRequests
    /\ \E op \in {"generate_images_with_together", "generate_images_with_ablo"},
          ps \in PromptLists :
        stack' = [stack EXCEPT ![t] = <<NewFrame(op, g, ps)>>]
    /\ calls' = calls + 1
    /\ NewCall(t)
    /\ UNCHANGED <<gen, clock, writes, page, batch, pvars, tvars, cvars>>

CallSaveAll(t, g) ==
    /\ CanCall(t)
    /\ stack' = [stack EXCEPT ![t] = <<NewFrame("save_all_images", g, None)>>]
    /\ calls' = calls + 1
    /\ NewCall(t)
    /\ UNCHANGED <<gen, clock, writes, page, batch, pvars, tvars, cvars>>

CallSaveImage(t, g) ==
    /\ CanCall(t)
    /\ \E index \in (-MaxIndex)..MaxIndex, filename \in {None, <<CallerName>>} :
        stack' = [stack EXCEPT ![t] =
                     <<NewFrame("save_image", g, [index |-> index, filename |-> filename])>>]
    /\ calls' = calls + 1
    /\ NewCall(t)
    /\ UNCHANGED <<gen, clock, writes, page, batch, pvars, tvars, cvars>>

CallUpload(t, g) ==
    /\ CanCall(t)
    /\ \E image_index \in {None} \cup {<<k>> : k \in (-MaxIndex)..MaxIndex} :
        stack' = [stack EXCEPT ![t] = <<NewFrame("upload_to_story_protocol", g, image_index)>>]
    /\ calls' = calls + 1
    /\ NewCall(t)
    /\ UNCHANGED <<gen, clock, writes, page, batch, pvars, tvars, cvars>>

CallDisplay(t, g) ==
    /\ CanCall(t)
    /\ stack' = [stack EXCEPT ![t] = <<NewFrame("display_images_for_selection", g, None)>>]
    /\ calls' = calls + 1
    /\ NewCall(t)
    /\ UNCHANGED <<gen, clock, writes, page, batch, pvars, tvars, cvars>>

GenInit ==
    /\ \E a, b \in BOOLEAN : gen = [g \in Gens |-> IF g = 1 THEN NewGen(a, b)
                                                            ELSE NewGen(FALSE, FALSE)]
    /\ clock = 0
    /\ writes = <<>>
    /\ stack = [t \in Threads |-> <<>>]
    /\ last = [t \in Threads |-> NoCall]
    /\ requests = [t \in Threads |-> <<>>]
    /\ saves = [t \in Threads |-> <<>>]
    /\ spawns = [t \in Threads |-> <<>>]
    /\ page = <<>>
    /\ batch = 0
    /\ calls = 0
    /\ trail = [t \in Threads |-> <<>>]

\* no command-line process
CliIdle ==
    /\ env = [together |-> FALSE, ablo |-> FALSE, story |-> FALSE]
    /\ argv = [concept |-> <<>>, variations |-> 0, provider |-> "together",
               upload |-> FALSE, serve |-> FALSE]
    /\ proc = [state |-> "idle", code |-> 0]

\* no command-line process and no upload tool
ProcIdle == CliIdle /\ process = NoProcess

\* upload_to_story_protocol is at its loop with one image or more to upload
RelayInit ==
    /\ CliIdle
    /\ process \in {[NoProcess EXCEPT !.pc = "popen", !.todo = n] : n \in 1..MaxRuns}

GenIdle ==
    /\ gen = [g \in Gens |-> NewGen(FALSE, FALSE)]
    /\ clock = 0
    /\ writes = <<>>
    /\ stack = [t \in Threads |-> <<>>]
    /\ last = [t \in Threads |-> NoCall]
    /\ requests = [t \in Threads |-> <<>>]
    /\ saves = [t \in Threads |-> <<>>]
    /\ spawns = [t \in Threads |-> <<>>]
    /\ page = <<>>
    /\ batch = 0
    /\ calls = 0
    /\ trail = [t \in Threads |-> <<>>]

(***************************************************************************)
(* The pipeline: create_images_from_concept (659-734) and main (804-859).  *)
(***************************************************************************)
\* the text of a chat answer with k prompt lines
RECURSIVE PromptLines(_)
PromptLines(k) ==
    IF k = 0 THEN <<>>
    ELSE IF k = 1 THEN PromptAt(1)
    ELSE PromptLines(k - 1) \o <<NL>> \o PromptAt(k)

\* the answers of the chat service in a run of the pipeline: a failure, or a
\* text of 0 .. MaxPrompts + 1 prompt lines
PipelineReplies ==
    {[kind |-> "http_error", text |-> <<>>]}
        \cup {[kind |-> "text", text |-> PromptLines(k)] : k \in 0..(MaxPrompts + 1)}

\* the concept given on the command line
CliConcept == <<"on", SP, "beach">>

\* lines 678-684: the two settings derived from the provider, then step 1;
\* generate_image_prompts is outside the try block and never raises
PipelinePrompts(t) ==
    /\ Running(t, "create_images_from_concept", "start")
    /\ LET f == Top(t)
           nelson == f.arg.provider = "together"
           n == IF f.arg.provider = "ablo" THEN 1 ELSE f.arg.num_variations
       IN  \E r \in PipelineReplies :
            stack' = SetTop(t, [f EXCEPT !.pc = "render",
                            !.todo = GenerateImagePrompts(f.arg.concept, n, nelson, r)])
    /\ trail' = [trail EXCEPT ![t] = Append(@, "chat")]
    /\ UNCHANGED <<gen, clock, writes, last, requests, saves, spawns, page, batch, calls,
                   pvars, tvars, cvars>>

\* lines 688-693: a new ImageGenerator, which reads the keys from the
\* environment, and the render call of the selected provider
PipelineRender(t) ==
    /\ Running(t, "create_images_from_concept", "render")
    /\ LET f == Top(t)
           op == IF f.arg.provider = "ablo" THEN "generate_images_with_ablo"
                 ELSE "generate_images_with_together"
       IN  /\ gen' = [gen EXCEPT ![f.self] = NewGen(env.together, env.ablo)]
           /\ CallFrom(t, "rendered", NewFrame(op, f.self, f.todo))
    /\ UNCHANGED <<clock, writes, last, requests, saves, spawns, page, batch, calls,
                   trail, pvars, tvars, cvars>>

\* what the function returns: (images, prompts)
Produced(images, used) == [images |-> images, prompts |-> used]

\* lines 696-697 and 728-730: with images, step 3 saves them; without, the
\* function returns two empty lists; the frame keeps the images in acc
PipelineSave(t) ==
    /\ Running(t, "create_images_from_concept", "rendered")
    /\ LET f == Top(t)
       IN  IF f.ret # <<>>
           THEN /\ Invoke(t, [f EXCEPT !.pc = "saved", !.acc = f.ret],
                          NewFrame("save_all_images", f.self, None))
                /\ UNCHANGED last
           ELSE Return(t, Produced(<<>>, <<>>))
    /\ UNCHANGED <<gen, clock, writes, requests, saves, spawns, page, batch, calls,
                   trail, pvars, tvars, cvars>>

\* lines 700-706 and 725: step 4 when asked for, else the listing page
PipelinePublish(t) ==
    /\ Running(t, "create_images_from_concept", "saved")
    /\ IF Top(t).arg.upload_to_story
       THEN CallFrom(t, "uploaded", NewFrame("upload_to_story_protocol", Top(t).self, None))
       ELSE CallFrom(t, "displayed",
                     NewFrame("display_images_for_selection", Top(t).self, None))
    /\ UNCHANGED <<gen, clock, writes, last, requests, saves, spawns, page, batch, calls,
                   trail, pvars, tvars, cvars>>

\* lines 708-725: the results are printed, then the listing page
PipelineDisplay(t) ==
    /\ Running(t, "create_images_from_concept", "uploaded")
    /\ CallFrom(t, "displayed", NewFrame("display_images_for_selection", Top(t).self, None))
    /\ UNCHANGED <<gen, clock, writes, last, requests, saves, spawns, page, batch, calls,
                   trail, pvars, tvars, cvars>>

\* line 727: return images, generator.prompts_used
PipelineReturn(t) ==
    /\ Running(t, "create_images_from_concept", "displayed")
    /\ Return(t, Produced(Top(t).acc, gen[Top(t).self].prompts_used))
    /\ UNCHANGED <<gen, clock, writes, requests, saves, spawns, page, batch, calls,
                   trail, pvars, tvars, cvars>>

\* lines 732-734: any exception of steps 2 to 5 ends in two empty lists
PipelineExcept(t) ==
    /\ Running(t, "create_images_from_concept", "except")
    /\ Return(t, Produced(<<>>, <<>>))
    /\ UNCHANGED <<gen, clock, writes, requests, saves, spawns, page, batch, calls,
                   trail, pvars, tvars, cvars>>

\* sys.exit(code)
Exit(t, code) ==
    /\ stack' = [stack EXCEPT ![t] = <<>>]
    /\ proc' = [state |-> "exited", code |-> code]

\* a slip in lines 833-840: only the key of Provider A is looked for
MissingKey_TogetherOnly(provider, e) == provider = "together" /\ ~e.together

\* lines 833-840: the key of the selected provider is not in the environment
MissingKey(provider, e) ==
    \/ provider = "together" /\ ~e.together
    \/ provider = "ablo" /\ ~e.ablo

\* lines 825-853: the server is started; or a missing key of the provider, or
\* a missing upload configuration, ends the process with status 1; or the
\* pipeline is called
MainStart(t) ==
    /\ Running(t, "main", "start")
    /\ IF argv.serve
       THEN /\ stack' = [stack EXCEPT ![t] = <<>>]
            /\ proc' = [state |-> "serving", code |-> 0]
       ELSE IF MissingKey(argv.provider, env)
       THEN Exit(t, 1)
       ELSE IF argv.upload /\ ~env.story
       THEN Exit(t, 1)
       ELSE /\ CallFrom(t, "created",
                  NewFrame("create_images_from_concept", Top(t).self,
                           [concept |-> argv.concept, num_variations |-> argv.variations,
                            provider |-> argv.provider, upload_to_story |-> argv.upload]))
            /\ UNCHANGED proc
    /\ UNCHANGED <<gen, clock, writes, last, requests, saves, spawns, page, batch, calls,
                   trail, pvars, tvars, env, argv, process>>

\* lines 856-863: return 0 if images else 1, handed to sys.exit
MainExit(t) ==
    /\ Running(t, "main", "created")
    /\ Exit(t, IF Top(t).ret.images # <<>> THEN 0 ELSE 1)
    /\ UNCHANGED <<gen, clock, writes, last, requests, saves, spawns, page, batch, calls,
                   trail, pvars, tvars, env, argv, process>>

\* the process has been started from the command line and is in main
CliInit ==
    /\ env \in [together : BOOLEAN, ablo : BOOLEAN, story : BOOLEAN]
    /\ argv \in [concept : {CliConcept}, variations : 0..MaxPrompts,
                 provider : {"together", "ablo"}, upload : BOOLEAN, serve : BOOLEAN]
    /\ proc = [state |-> "running", code |-> 0]
    /\ process = NoProcess
    /\ gen = [g \in Gens |-> NewGen(FALSE, FALSE)]
    /\ clock = 0
    /\ writes = <<>>
    /\ stack = [t \in Threads |-> IF t = 1 THEN <<NewFrame("main", 1, None)>> ELSE <<>>]
    /\ last = [t \in Threads |-> NoCall]
    /\ requests = [t \in Threads |-> <<>>]
    /\ saves = [t \in Threads |-> <<>>]
    /\ spawns = [t \in Threads |-> <<>>]
    /\ page = <<>>
    /\ batch = 0
    /\ calls = 0
    /\ trail = [t \in Threads |-> <<>>]

(***************************************************************************)
(* The endpoint: api_generate_image (738-790), one request per call, each  *)
(* thread of the server working with the ImageGenerator it creates.        *)
(***************************************************************************)
\* request.json: no body, an object without "prompt", an object with "prompt"
\* and a provider
Requests ==
    {[body |-> b, provider |-> "together"] : b \in {"none", "no_prompt"}}
        \cup {[body |-> "prompt", provider |-> p] : p \in {"together", "ablo"}}

\* data['prompt']
RequestPrompt == <<"on", SP, "beach">>

\* jsonify({'error': ...}), status
ErrorResponse(status, error) ==
    [status |-> status, error |-> error, imageUrl |-> None, prompt |-> <<>>,
     generatedAt |-> None, provider |-> ""]

\* a slip in lines 777-786: the prompt of the response is the concept received
ImageResponse_Concept(filepath, ps, provider) ==
    [status |-> 200, error |-> "", imageUrl |-> <<filepath>>, prompt |-> RequestPrompt,
     generatedAt |-> <<filepath.ts>>, provider |-> provider]

\* lines 777-786: the response for a saved image; the file is named by its
\* basename and generatedAt is the timestamp in the name
ImageResponse(filepath, ps, provider) ==
    [status |-> 200, error |-> "", imageUrl |-> <<filepath>>, prompt |-> ps[1],
     generatedAt |-> <<filepath.ts>>, provider |-> provider]

\* lines 741-760: 400 without a prompt; else a new ImageGenerator and one
\* prompt from generate_image_prompts, or 500 when it gives none
ApiStart(t) ==
    /\ Running(t, "api_generate_image", "start")
    /\ LET f == Top(t)
       IN  IF f.arg.body # "prompt"
           THEN /\ Return(t, ErrorResponse(400, "Prompt is required"))
                /\ UNCHANGED <<gen, trail>>
           ELSE \E r \in PipelineReplies :
                LET ps == GenerateImagePrompts(RequestPrompt, 1,
                                               f.arg.provider = "together", r)
                IN  /\ gen' = [gen EXCEPT ![f.self] = NewGen(env.together, env.ablo)]
                    /\ trail' = [trail EXCEPT ![t] = Append(@, "chat")]
                    /\ IF ps = <<>>
                       THEN Return(t, ErrorResponse(500, "Failed to generate prompts"))
                       ELSE /\ stack' = SetTop(t, [f EXCEPT !.pc = "render", !.todo = ps])
                            /\ UNCHANGED last
    /\ UNCHANGED <<clock, writes, requests, saves, spawns, page, batch, calls,
                   pvars, tvars, cvars>>

\* lines 763-766: the render call of the selected provider
ApiRender(t) ==
    /\ Running(t, "api_generate_image", "render")
    /\ LET f == Top(t)
           op == IF f.arg.provider = "ablo" THEN "generate_images_with_ablo"
                 ELSE "generate_images_with_together"
       IN  CallFrom(t, "rendered", NewFrame(op, f.self, f.todo))
    /\ UNCHANGED <<gen, clock, writes, last, requests, saves, spawns, page, batch, calls,
                   trail, pvars, tvars, cvars>>

\* lines 768-772: 500 without an image, else save_image(0)
ApiSave(t) ==
    /\ Running(t, "api_generate_image", "rendered")
    /\ LET f == Top(t)
       IN  IF f.ret = <<>>
           THEN Return(t, ErrorResponse(500, "Failed to generate image"))
           ELSE /\ Invoke(t, [f EXCEPT !.pc = "saved", !.acc = f.ret],
                          NewFrame("save_image", f.self, [index |-> 0, filename |-> None]))
                /\ UNCHANGED last
    /\ UNCHANGED <<gen, clock, writes, requests, saves, spawns, page, batch, calls,
                   trail, pvars, tvars, cvars>>

\* lines 773-786: 500 without a file, else the response
ApiRespond(t) ==
    /\ Running(t, "api_generate_image", "saved")
    /\ LET f == Top(t)
       IN  IF f.ret = None
           THEN Return(t, ErrorResponse(500, "Failed to save image"))
           ELSE Return(t, ImageResponse(f.ret[1], f.todo, f.arg.provider))
    /\ UNCHANGED <<gen, clock, writes, requests, saves, spawns, page, batch, calls,
                   trail, pvars, tvars, cvars>>

\* lines 788-790: any exception gives 500
ApiExcept(t) ==
    /\ Running(t, "api_generate_image", "except")
    /\ Return(t, ErrorResponse(500, Top(t).ret))
    /\ UNCHANGED <<gen, clock, writes, requests, saves, spawns, page, batch, calls,
                   trail, pvars, tvars, cvars>>

\* a request arrives and thread t handles it with generator g
CallApi(t, g) ==
    /\ stack[t] = <<>>
    /\ calls < MaxRequests
    /\ \E req \in Requests :
        stack' = [stack EXCEPT ![t] = <<NewFrame("api_generate_image", g, req)>>]
    /\ calls' = calls + 1
    /\ NewCall(t)
    /\ UNCHANGED <<gen, clock, writes, page, batch, pvars, tvars, cvars>>

\* the server is running: the keys are in the environment or not
ServerInit ==
    /\ env \in [together : BOOLEAN, ablo : BOOLEAN, story : {FALSE}]
    /\ argv = [concept |-> <<>>, variations |-> 0, provider |-> "together",
               upload |-> FALSE, serve |-> TRUE]
    /\ proc = [state |-> "serving", code |-> 0]
    /\ process = NoProcess
    /\ gen = [g \in Gens |-> NewGen(FALSE, FALSE)]
    /\ clock = 0
    /\ writes = <<>>
    /\ stack = [t \in Threads |-> <<>>]
    /\ last = [t \in Threads |-> NoCall]
    /\ requests = [t \in Threads |-> <<>>]
    /\ saves = [t \in Threads |-> <<>>]
    /\ spawns = [t \in Threads |-> <<>>]
    /\ page = <<>>
    /\ batch = 0
    /\ calls = 0
    /\ trail = [t \in Threads |-> <<>>]

(***************************************************************************)
(* Properties of rendering, checked under SpecRender (thread 1 makes       *)
(* render calls on generator 1).                                           *)
(***************************************************************************)
RenderOps == {"generate_images_with_together", "generate_images_with_ablo"}

\* the outside call of thread 1 that last ended, and how
Ended(op) == last[1].frame.op = op
Returned(op) == Ended(op) /\ last[1].exc = "none"

\* the positions of the requests that collected an image, in request order
RECURSIVE NonSkipped(_)
NonSkipped(reqs) ==
    IF reqs = <<>> THEN <<>>
    ELSE (IF reqs[1].collected > 0 THEN <<reqs[1].idx>> ELSE <<>>) \o NonSkipped(Tail(reqs))

\* C4: generate_images_with_together returns at most one image per input
\* prompt, in the order of the prompts: the j-th returned image was rendered
\* from the j-th non-skipped input prompt, which is also prompts_used[j].
C4_TogetherOrderPreserving ==
    Returned("generate_images_with_together") =>
        LET f == last[1].frame
            images == last[1].ret
            kept == NonSkipped(requests[1])
            used == gen[f.self].prompts_used
        IN  /\ Len(images) <= Len(f.arg)
            /\ Len(images) = Len(kept)
            /\ Len(used) = Len(images)
            /\ \A j \in 1..Len(images) :
                  /\ images[j].batch = f.batch
                  /\ images[j].prompt = kept[j]
                  /\ used[j] = f.arg[kept[j]]
            /\ \A j, k \in 1..Len(images) : j < k => images[j].prompt < images[k].prompt

\* C4 witness: of two prompts the first was skipped and the second
\* gave the only image returned.
C4_Witness ==
    /\ Returned("generate_images_with_together")
    /\ Len(last[1].frame.arg) = 2
    /\ Len(last[1].ret) = 1
    /\ last[1].ret[1].prompt = 2
    /\ gen[1].prompts_used = <<PromptAt(2)>>

\* C5: in a render call of either provider that passes the credential check,
\* every input prompt gets exactly one image-generation request, in input
\* order, whatever failed before it; the call returns normally, with the
\* images of the prompts that succeeded.
C5_OneRequestPerPrompt ==
    /\ \A op \in RenderOps :
          /\ Running(1, op, "loop") =>
                /\ Len(requests[1]) = Top(1).i - 1
                /\ \A k \in 1..Len(requests[1]) : requests[1][k].idx = k
          /\ Ended(op) =>
                LET f == last[1].frame
                    key == IF op = "generate_images_with_together"
                           THEN gen[f.self].together_api_key
                           ELSE gen[f.self].ablo_api_key
                IN  /\ key <=> last[1].exc = "none"
                    /\ key =>
                          /\ Len(requests[1]) = Len(f.arg)
                          /\ \A k \in 1..Len(f.arg) :
                                /\ requests[1][k].idx = k
                                /\ requests[1][k].text =
                                      IF op = "generate_images_with_ablo"
                                      THEN AbloPrompt(f.arg[k]) ELSE f.arg[k]
                          /\ last[1].ret = gen[f.self].generated_images
                          /\ \A k \in 1..Len(f.arg) :
                                Cardinality({j \in 1..Len(last[1].ret) :
                                                last[1].ret[j].prompt = k})
                                    = requests[1][k].collected

\* C5 witness: a call with two prompts whose first request failed and whose
\* second request gave an image.
C5_Witness ==
    /\ Returned("generate_images_with_ablo")
    /\ Len(requests[1]) = 2
    /\ requests[1][1].collected = 0
    /\ requests[1][2].collected > 0
    /\ Len(last[1].ret) > 0

(***************************************************************************)
(* Properties of saving and publishing, checked under Spec (thread 1 makes *)
(* any calls on generator 1).                                              *)
(***************************************************************************)
IsGenerated(name) == name.ts >= 0

\* C18: generate_images_with_ablo keeps the input order per prompt: all
\* variants of a prompt come before every variant of the next prompt, each
\* image is paired in prompts_used with a label naming its prompt, and when
\* every prompt gives k variants the images of the i-th prompt (from 0) are
\* at positions i*k .. i*k+k-1 (from 0).
C18_VariantsInPromptOrder ==
    Returned("generate_images_with_ablo") =>
        LET f == last[1].frame
            images == last[1].ret
            used == gen[f.self].prompts_used
        IN  /\ Len(used) = Len(images)
            /\ \A j, k \in 1..Len(images) : j < k => images[j].prompt <= images[k].prompt
            /\ \A j \in 1..Len(images) :
                  /\ images[j].prompt \in 1..Len(f.arg)
                  /\ \E n \in 1..Len(images) :
                        used[j] = f.arg[images[j].prompt] \o VariantSuffix(n)
            /\ \A k \in 1..MaxVariants :
                  (\A r \in 1..Len(requests[1]) : requests[1][r].collected = k) =>
                      /\ Len(images) = k * Len(f.arg)
                      /\ \A j \in 1..Len(images) : images[j].prompt = ((j - 1) \div k) + 1

\* C18 witness: two prompts gave two variants each; the third and fourth
\* image are those of the second prompt.
C18_Witness ==
    /\ Returned("generate_images_with_ablo")
    /\ Len(last[1].frame.arg) = 2
    /\ Len(last[1].ret) = 4
    /\ \A r \in 1..2 : requests[1][r].collected = 2
    /\ last[1].ret[3].prompt = 2 /\ last[1].ret[4].prompt = 2
    /\ gen[1].prompts_used[3] = PromptAt(2) \o VariantSuffix(3)

\* C6: no save writes to a generated filename that an earlier save wrote to.
C6_NoFilenameWrittenTwice ==
    \A i, j \in 1..Len(writes) :
        (i < j /\ IsGenerated(writes[i].name) /\ IsGenerated(writes[j].name)) =>
            writes[i].name # writes[j].name

\* record rec of image_files belongs to the k-th current image of generator g:
\* its file was written from that image and its prompt is the image's prompt
RecordOf(g, rec, k) ==
    /\ k <= Len(gen[g].prompts_used)
    /\ rec[2] = gen[g].prompts_used[k]
    /\ \E w \in 1..Len(writes) :
          writes[w].name = rec[1] /\ writes[w].data = gen[g].generated_images[k]

\* C19: after any sequence of render, save_image, save_all_images, display
\* and upload operations on one ImageGenerator, every record in image_files
\* corresponds to exactly one image of the current generated_images (its file
\* was written from that image, its prompt is the prompt paired with it); no
\* record refers to an image of an earlier, replaced batch.
C19_RecordsOfCurrentImages ==
    stack[1] = <<>> =>
        \A r \in 1..Len(gen[1].image_files) :
            \E k \in 1..Len(gen[1].generated_images) :
                /\ RecordOf(1, gen[1].image_files[r], k)
                /\ \A j \in 1..Len(gen[1].generated_images) :
                      RecordOf(1, gen[1].image_files[r], j) => j = k

\* the records of the save attempts that worked, in attempt order
RECURSIVE SavedRecords(_, _)
SavedRecords(attempts, pairs) ==
    IF attempts = <<>> THEN <<>>
    ELSE (IF attempts[1].ok THEN <<<<attempts[1].name, pairs[attempts[1].idx][2]>>>> ELSE <<>>)
            \o SavedRecords(Tail(attempts), pairs)

\* C7: save_all_images attempts every image in order, skips exactly the
\* images whose decode or write fails, and returns and stores one
\* (path, prompt) record for each image saved, in image order; no failure on
\* an image raises out of the call (only the directory can: then no image was
\* attempted).  A call that finds no generated image returns the empty list
\* and attempts nothing.
C7_SaveAllSkipsFailures ==
    Ended("save_all_images") =>
        LET f == last[1].frame
            me == gen[f.self]
            pairs == Zip(me.generated_images, me.prompts_used)
        IN  IF last[1].exc = "none"
            THEN /\ Len(saves[1]) = Len(pairs)
                 /\ \A k \in 1..Len(saves[1]) : saves[1][k].idx = k
                 /\ last[1].ret = SavedRecords(saves[1], pairs)
                 /\ me.generated_images # <<>> => me.image_files = last[1].ret
                 /\ \A k \in 1..Len(saves[1]) :
                       saves[1][k].ok =>
                           \E w \in 1..Len(writes) :
                               /\ writes[w].name = saves[1][k].name
                               /\ writes[w].data = me.generated_images[k]
            ELSE saves[1] = <<>>

\* C7 witness: of two images the first failed to save and the second was saved.
C7_Witness ==
    /\ Returned("save_all_images")
    /\ Len(saves[1]) = 2
    /\ ~saves[1][1].ok /\ saves[1][2].ok
    /\ Len(gen[1].image_files) = 1

\* the runs of the tool whose result was read, in run order
RECURSIVE Completed(_, _)
Completed(runs, n) ==
    IF runs = <<>> THEN <<>>
    ELSE (IF runs[1].out = "ok" THEN <<n>> ELSE <<>>) \o Completed(Tail(runs), n + 1)

\* C8: upload_to_story_protocol runs the tool exactly once per image to
\* upload, in saved order, and returns one record per run that exited 0 and
\* whose result could be read, in the same order; any other run adds no
\* record, is not repeated and does not stop the later runs.
C8_OneRunPerImage ==
    Returned("upload_to_story_protocol") =>
        LET f == last[1].frame
            files == gen[f.self].image_files
            done == Completed(spawns[1], 1)
            wanted == IF files = <<>> THEN <<>>
                      ELSE IF f.arg = None THEN files
                      ELSE <<files[PyIndex(Len(files), f.arg[1])]>>
        IN  /\ Len(spawns[1]) = Len(wanted)
            /\ \A k \in 1..Len(wanted) :
                  spawns[1][k].path = wanted[k][1] /\ spawns[1][k].prompt = wanted[k][2]
            /\ Len(last[1].ret) = Len(done)
            /\ \A j \in 1..Len(done) :
                  /\ last[1].ret[j].run = done[j]
                  /\ last[1].ret[j].path = wanted[done[j]][1]
                  /\ last[1].ret[j].prompt = wanted[done[j]][2]

\* C8 witness: two images were uploaded, the first run exited non-zero and the
\* second gave the only record returned.
C8_Witness ==
    /\ Returned("upload_to_story_protocol")
    /\ Len(spawns[1]) = 2
    /\ spawns[1][1].out = "exit_nonzero" /\ spawns[1][2].out = "ok"
    /\ Len(last[1].ret) = 1

\* C9: upload_to_story_protocol never raises, for every value of image_index
\* and every outcome of the external tool (a directory that cannot be made is
\* left aside).
C9_UploadNeverRaises ==
    Ended("upload_to_story_protocol") => last[1].exc \in {"none", "OSError"}

(***************************************************************************)
(* Properties of the command line, checked under SpecCli.                  *)
(***************************************************************************)
\* C10: a run of the command line in generate mode exits with status 0 if
\* and only if the render step produced at least one image, and with status 1
\* otherwise, whatever happens in the save, upload and display steps.
C10_ExitCodeTellsImages ==
    proc.state = "exited" =>
        /\ proc.code \in {0, 1}
        /\ proc.code = 0 <=> gen[1].generated_images # <<>>

\* the remote calls: chat completion, image generation, image fetch, upload tool
Remote == {"chat", "request", "fetch", "spawn"}

\* C11: a run of the command line in generate mode whose selected provider
\* has no key in the environment exits with status 1, and no remote call
\* (chat completion, image generation, image fetch, upload tool) is made
\* before the exit.
C11_NoKeyNoRemoteCall ==
    (/\ ~argv.serve
     /\ \/ argv.provider = "together" /\ ~env.together
        \/ argv.provider = "ablo" /\ ~env.ablo) =>
        /\ \A k \in 1..Len(trail[1]) : trail[1][k] \notin Remote
        /\ proc.state = "exited" => proc.code = 1
        /\ proc.state \in {"running", "exited"}
        /\ proc.state = "running" => Running(1, "main", "start")

\* C11 witness: Provider B was selected without its key (the key of
\* Provider A is set) and the process has exited with status 1.
C11_Witness ==
    /\ ~argv.serve /\ argv.provider = "ablo" /\ ~env.ablo /\ env.together
    /\ proc = [state |-> "exited", code |-> 1]
    /\ trail[1] = <<>>

\* the number of entries of log that are e
RECURSIVE Count(_, _)
Count(log, e) ==
    IF log = <<>> THEN 0
    ELSE (IF log[1] = e THEN 1 ELSE 0) + Count(Tail(log), e)

\* the names of the files written so far
FilesWritten == {writes[k].name : k \in 1..Len(writes)}

\* a run for Provider A and two variations has exited, in which the chat
\* service gave the two prompts, both image requests gave an image, every run
\* of the upload tool gave a result, and every save and the listing page worked
AllWentWell ==
    /\ proc.state = "exited"
    /\ argv.provider = "together" /\ argv.variations = 2
    /\ Len(requests[1]) = 2
    /\ \A k \in 1..2 : requests[1][k].text = PromptAt(k) /\ requests[1][k].collected = 1
    /\ \A k \in 1..Len(spawns[1]) : spawns[1][k].out = "ok"
    /\ Count(trail[1], "save") = Len(writes)
    /\ Count(trail[1], "page") = 1

\* C13: end to end with Provider A, n = 2 and every remote call succeeding,
\* the run produces exactly 2 prompts and 2 images, writes exactly 2 image
\* files during the whole invocation, and the listing page has exactly 2
\* entries, one per image with its prompt.
C13_TwoOfEverything ==
    AllWentWell =>
        /\ proc.code = 0
        /\ Len(gen[1].generated_images) = 2
        /\ gen[1].prompts_used = <<PromptAt(1), PromptAt(2)>>
        /\ page = Zip(gen[1].generated_images, gen[1].prompts_used)
        /\ Len(page) = 2
        /\ Cardinality(FilesWritten) = 2

\* the step of the pipeline an entry of the trail belongs to: (1) prompt
\* expansion, (2) rendering, (3) persistence and presentation, (4) publishing
StepOf(e) ==
    IF e = "chat" THEN 1
    ELSE IF e \in {"request", "fetch"} THEN 2
    ELSE IF e \in {"save", "page"} THEN 3
    ELSE 4

\* C17: in one invocation of create_images_from_concept the four steps run
\* strictly in the order (1), (2), (3), (4): every save and the listing page
\* come before the first upload, and no save or display comes after an
\* upload.
C17_StepsInOrder ==
    \A i, j \in 1..Len(trail[1]) : i < j => StepOf(trail[1][i]) <= StepOf(trail[1][j])

\* C21: upload_to_story_protocol(image_index=i), for an i that indexes a
\* generated image, uploads the file that was saved from generated_images[i]
\* together with the prompt paired with that image, whatever saves worked,
\* failed or were made before on the instance.
C21_UploadsTheIndexedImage ==
    (Returned("upload_to_story_protocol") /\ last[1].frame.arg # None) =>
        LET f == last[1].frame
            i == f.arg[1]
            me == gen[f.self]
        IN  (0 <= i /\ i < Len(me.generated_images) /\ spawns[1] # <<>>) =>
                /\ Len(spawns[1]) = 1
                /\ spawns[1][1].prompt = me.prompts_used[i + 1]
                /\ \E w \in 1..Len(writes) :
                      /\ writes[w].name = spawns[1][1].path
                      /\ writes[w].data = me.generated_images[i + 1]

\* C23: save_image(index) with an index outside 0 .. len(generated_images)-1
\* (a negative index, or any index when there are no images) returns None,
\* writes no file and leaves image_files as it was.
C23_BadIndexSavesNothing ==
    [][(/\ Running(1, "save_image", "start")
        /\ LET index == Top(1).arg.index
               n == Len(gen[Top(1).self].generated_images)
           IN  index < 0 \/ index >= n)
       => (/\ writes' = writes
           /\ gen' = gen
           /\ last'[1].exc = "none"
           /\ last'[1].ret = None)]_vars

(***************************************************************************)
(* Properties of the generator between calls, checked under Spec.          *)
(***************************************************************************)
\* C20: on a single thread, after every completed call of an ImageGenerator
\* operation (a render call that raises for a missing key included),
\* generated_images and prompts_used have the same length and
\* prompts_used[j] is the prompt, or the variant label of the prompt, from
\* which generated_images[j] was rendered.
C20_ImagesPairedWithPrompts ==
    stack[1] = <<>> =>
        LET images == gen[1].generated_images
            used == gen[1].prompts_used
        IN  /\ Len(images) = Len(used)
            /\ \A j \in 1..Len(images) :
                  \/ used[j] = PromptAt(images[j].prompt)
                  \/ used[j] = PromptAt(images[j].prompt) \o VariantSuffix(j)

\* C20 witness: a render call gave two images and their prompts, and a later
\* render call on the same generator has raised for the missing key of the
\* other provider.
C20_Witness ==
    /\ stack[1] = <<>>
    /\ last[1].frame.op = "generate_images_with_ablo"
    /\ last[1].exc = "ValueError"
    /\ Len(gen[1].generated_images) = 2
    /\ gen[1].prompts_used = <<PromptAt(1), PromptAt(2)>>

(***************************************************************************)
(* Properties of the endpoint, checked under SpecApi.                      *)
(***************************************************************************)
\* thread t is handling a request, or has answered one
Handling(t) == stack[t] # <<>> /\ stack[t][Len(stack[t])].op = "api_generate_image"
Answered(t) == stack[t] = <<>> /\ last[t].frame.op = "api_generate_image"

\* the request thread t is handling or has answered
RequestOf(t) == IF Handling(t) THEN stack[t][Len(stack[t])].arg ELSE last[t].frame.arg

\* C12: an invocation whose selected provider has no key in the environment
\* never sends a chat-completion request: the missing key is found before any
\* network call (stated here for the requests to /api/generate-image).
C12_NoChatWithoutKey ==
    \A t \in Threads :
        (Handling(t) \/ Answered(t)) =>
            LET req == RequestOf(t)
            IN  (/\ req.body = "prompt"
                 /\ \/ req.provider = "together" /\ ~env.together
                    \/ req.provider = "ablo" /\ ~env.ablo) =>
                    \A k \in 1..Len(trail[t]) : trail[t][k] # "chat"

C15_SeparateInstancesIsolated ==
    \A i, j \in 1..Len(writes) :
        (i < j /\ writes[j].data.batch < writes[i].data.batch) =>
            writes[i].name # writes[j].name

(***************************************************************************)
(* Properties of two threads rendering on one generator, checked under     *)
(* SpecRace.                                                               *)
(***************************************************************************)
\* the last call of thread t was a render call and it returned
Rendered(t) == stack[t] = <<>> /\ last[t].frame.op \in RenderOps /\ last[t].exc = "none"

\* C16: two render invocations that run at the same time on one
\* ImageGenerator race on its fields.  What each invocation returns is its
\* own (the list is local: its images, in prompt order) and generated_images
\* is the list one of them returned, but prompts_used is reset and appended
\* to by both, so that after the two calls generated_images and prompts_used
\* need not belong to one invocation (the witness is such a state).
C16_RaceOnSharedFields ==
    (Rendered(1) /\ Rendered(2)) =>
        /\ \A t \in Threads :
              LET images == last[t].ret
              IN  \A j, k \in 1..Len(images) :
                    /\ images[j].batch = last[t].frame.batch
                    /\ j < k => \/ images[j].prompt < images[k].prompt
                                \/ /\ images[j].prompt = images[k].prompt
                                   /\ images[j].variant < images[k].variant
        /\ gen[1].generated_images \in {last[1].ret, last[2].ret}
        /\ Len(gen[1].prompts_used) <= Len(last[1].ret) + Len(last[2].ret)

\* C16 witness: both invocations have returned, generated_images is the one
\* image of one of them and prompts_used holds two entries, one appended by
\* each.
C16_Witness ==
    /\ Rendered(1) /\ Rendered(2)
    /\ Len(last[1].ret) = 1 /\ Len(last[2].ret) = 1
    /\ Len(gen[1].generated_images) = 1
    /\ Len(gen[1].prompts_used) = 2

(***************************************************************************)
(* Specifications.                                                         *)
(***************************************************************************)
\* calls of generate_image_prompts alone
InitPrompts == PromptInit /\ TransformIdle /\ GenIdle /\ ProcIdle

SpecPrompts == InitPrompts /\ [][CallGenerateImagePrompts]_vars

\* the Provider-B transform alone
InitTransform == TransformInit /\ PromptIdle /\ GenIdle /\ ProcIdle

SpecTransform == InitTransform /\ [][TrimPrompt]_vars

\* the prompt expander followed by the Provider-B transform
NextExpandTrim == CallGenerateImagePrompts \/ TrimGenerated

SpecExpandTrim == InitPrompts /\ [][NextExpandTrim]_vars

\* the upload loop and the tool: the thread of the loop goes on whenever it
\* can, and the operating system runs the tool whenever it is not blocked
RelaySteps ==
    RelayPopen \/ RelayReadLine \/ RelayEndOfOutput \/ RelayWait \/ RelayResult
        \/ RelayReadErrors

ToolSteps == ToolWrite \/ ToolExit

NextRelay == RelaySteps \/ ToolSteps

InitRelay == RelayInit /\ PromptIdle /\ TransformIdle /\ GenIdle

SpecRelay ==
    InitRelay /\ [][NextRelay]_vars /\ WF_vars(RelaySteps) /\ WF_vars(ToolSteps)

\* one thread working on one generator
Init == GenInit /\ PromptIdle /\ TransformIdle /\ ProcIdle

Next ==
    \/ CallRender(1, 1)
    \/ CallSaveAll(1, 1)
    \/ CallSaveImage(1, 1)
    \/ CallUpload(1, 1)
    \/ CallDisplay(1, 1)
    \/ RenderStart(1)
    \/ TogetherStep(1)
    \/ AbloStep(1)
    \/ RenderReturn(1)
    \/ SaveAllStart(1)
    \/ SaveAllStep(1)
    \/ SaveAllReturn(1)
    \/ SaveImage(1)
    \/ UploadStart(1)
    \/ UploadSelect(1)
    \/ UploadStep(1)
    \/ UploadReturn(1)
    \/ DisplayStart(1)
    \/ DisplayPage(1)

Spec == Init /\ [][Next]_vars

\* one thread making render calls on one generator
NextRender ==
    \/ CallRender(1, 1)
    \/ RenderStart(1)
    \/ TogetherStep(1)
    \/ AbloStep(1)
    \/ RenderReturn(1)

SpecRender == Init /\ [][NextRender]_vars

\* one run of the command line
NextCli ==
    \/ MainStart(1)
    \/ PipelinePrompts(1)
    \/ PipelineRender(1)
    \/ PipelineSave(1)
    \/ PipelinePublish(1)
    \/ PipelineDisplay(1)
    \/ PipelineReturn(1)
    \/ PipelineExcept(1)
    \/ MainExit(1)
    \/ RenderStart(1)
    \/ TogetherStep(1)
    \/ AbloStep(1)
    \/ RenderReturn(1)
    \/ SaveAllStart(1)
    \/ SaveAllStep(1)
    \/ SaveAllReturn(1)
    \/ UploadStart(1)
    \/ UploadSelect(1)
    \/ UploadStep(1)
    \/ UploadReturn(1)
    \/ DisplayStart(1)
    \/ DisplayPage(1)

InitCli == CliInit /\ PromptIdle /\ TransformIdle

\* two threads making render calls on one generator
NextRace ==
    \E t \in Threads :
        \/ CallRenderShared(t, 1)
        \/ RenderStart(t)
        \/ TogetherStep(t)
        \/ AbloStep(t)
        \/ RenderReturn(t)

SpecRace == Init /\ [][NextRace]_vars

\* the server: each thread handles requests with its own generator
NextApi ==
    \E t \in Threads :
        \/ CallApi(t, t)
        \/ ApiStart(t)
        \/ ApiRender(t)
        \/ ApiSave(t)
        \/ ApiRespond(t)
        \/ ApiExcept(t)
        \/ RenderStart(t)
        \/ TogetherStep(t)
        \/ AbloStep(t)
        \/ RenderReturn(t)
        \/ SaveImage(t)

InitApi == ServerInit /\ PromptIdle /\ TransformIdle

SpecApi == InitApi /\ [][NextApi]_vars

SpecCli == InitCli /\ [][NextCli]_vars

====
